---- MODULE Spec2Model ----
(***************************************************************************)
(* The mouth-sync engine of the avatar: the hook useAudioMouthSync, the    *)
(* module-level graph cache it keeps, the frame callbacks it schedules and *)
(* the two consumer callbacks (setMouth, setViseme) of the App component.  *)
(*                                                                         *)
(* A subscription is the closure one run of the effect creates (its        *)
(* captured audio element, its `raf` variable, its listeners).  A closure  *)
(* lives in `subs` for as long as something can still call into it: the    *)
(* effect's cleanup, a registered listener or a scheduled frame callback.  *)
(***************************************************************************)
EXTENDS Integers, Sequences, FiniteSets, TLC

\* ---------------------------------------------------------------- bounds
NumResources == 2
FftSize == 4

\* ------------------------------------------------------------- constants
Null == 0
NoRaf == 0
Center == 128
Gain == 8

Resources == 1..NumResources
Mags == {-1, 1}
EventTypes == {"play", "pause", "ended"}

FrequencyBinCount == FftSize \div 2
\* The windows getByteTimeDomainData may fill in: no, one or all samples off
\* the centre by Loud, the others silent (128).
Loud == 32
TimeWindows == {[i \in 0..(FftSize - 1) |-> IF i < k THEN Center + Loud ELSE Center] :
                   k \in {0, 1, FftSize}}
Spectra == [0..(FrequencyBinCount - 1) -> Mags]

Silence == [i \in 0..(FrequencyBinCount - 1) |-> -1]

\* Loudness is kept exact as a numerator over AmpDen.
AmpDen == Center * FftSize

VARIABLES
    graph,        \* the WeakMap: resource -> cached session or NoEntry
    nodes,        \* per resource, how many times the node construction ran
    audioRef,     \* audioRef.current as the running effect read it, or Null
    paused,       \* audio.paused of that element
    currentTime,  \* audio.currentTime of that element: 0, or 1 for "> 0"
    subs,         \* closure id -> [audio, raf, viseme]
    attached,     \* the closure whose cleanup React holds, or 0
    listeners,    \* registered listeners: [audio, type, s]
    rafQueue,     \* scheduled frame callbacks: [id, s]
    mouth,        \* last value given to setMouth (numerator over AmpDen)
    viseme,       \* last value given to setViseme (a fraction [n, d])
    last,         \* the handler that ran last and what it did, in order
    sel,          \* the refs of AvatarCanvas the viseme selection lives in
    probe,        \* a function under study: its input and its output
    srv,          \* the API server: the request it served last and its answer
    box           \* a ChatBox: its state, its abort handle and its sends

vars == <<graph, nodes, audioRef, paused, currentTime, subs, attached, listeners,
          rafQueue, mouth, viseme, last, sel, probe, srv, box>>

NoEntry == "none"
CtxStates == {"suspended", "resuming", "running"}

Abs(x) == IF x < 0 THEN -x ELSE x
Min(a, b) == IF a < b THEN a ELSE b
Max(a, b) == IF a < b THEN b ELSE a

RECURSIVE Gcd(_, _)
Gcd(a, b) == IF b = 0 THEN a ELSE Gcd(b, a % b)

Frac(n, d) == IF n = 0 THEN [n |-> 0, d |-> 1]
              ELSE [n |-> n \div Gcd(n, d), d |-> d \div Gcd(n, d)]
Zero == Frac(0, 1)

\* ------------------------------------------------ the per-tick features
\* sum of |(t[i] - 128) / 128| over the window, times 8, clamped to 1:
\* the numerator of that value over AmpDen.
RECURSIVE SumAbs(_, _)
SumAbs(timeData, i) ==
    IF i >= FftSize THEN 0
    ELSE Abs(timeData[i] - Center) + SumAbs(timeData, i + 1)

\* A faulty loudness without the clamp to 1.
AmpUnclamped(timeData) == SumAbs(timeData, 0) * Gain

Amp(timeData) == Min(AmpDen, SumAbs(timeData, 0) * Gain)

\* freqData.length
Bins(freqData) == Cardinality(DOMAIN freqData)

\* The loop of computeSpectralCentroid: num += val * i, den += val.
RECURSIVE SumNum(_, _)
SumNum(freqData, i) ==
    IF i >= Bins(freqData) THEN 0
    ELSE Max(0, freqData[i]) * i + SumNum(freqData, i + 1)

RECURSIVE SumDen(_, _)
SumDen(freqData, i) ==
    IF i >= Bins(freqData) THEN 0
    ELSE Max(0, freqData[i]) + SumDen(freqData, i + 1)

\* A faulty centroid that is not divided by the number of bins.
CentroidInBins(freqData) ==
    LET num == SumNum(freqData, 0)
        den == SumDen(freqData, 0)
    IN  IF den = 0 THEN Zero ELSE Frac(num, den)

ComputeSpectralCentroid(freqData) ==
    LET num == SumNum(freqData, 0)
        den == SumDen(freqData, 0)
    IN  IF den = 0 THEN Zero
        ELSE Frac(num, den * Max(1, Bins(freqData) - 1))

\* ------------------------------------------------------------ effects
Fx(e) == [e |-> e, n |-> 0, d |-> 1]
FxVal(e, n, d) == [e |-> e, n |-> n, d |-> d]
MouthFx(n) == FxVal("mouth", n, AmpDen)
VisemeFx(c) == FxVal("viseme", c.n, c.d)

\* ctx.state as the code reads it: a context whose resume() promise has not
\* settled yet still reports "suspended".
CtxState(g) == IF g = "running" THEN "running" ELSE "suspended"

\* The handles the platform has given out and that are still referenced.
UsedIds(W) == {e.id : e \in W.q} \cup {W.subs[s].raf : s \in DOMAIN W.subs}
\* requestAnimationFrame never returns 0 and never returns a handle twice;
\* the smallest unreferenced handle stands for the next one.
FreshId(W) == CHOOSE n \in 1..(Cardinality(UsedIds(W)) + 1) : n \notin UsedIds(W)

CancelAnimationFrame(q, id) == {e \in q : e.id # id}

RequestAnimationFrame(W, s) ==
    LET id == FreshId(W)
    IN  [W EXCEPT !.q = @ \cup {[id |-> id, s |-> s]},
                  !.subs[s].raf = id,
                  !.fx = Append(@, Fx("raf"))]

\* cancelAnimationFrame(raf); the effect notes how many callbacks it removed.
Cancel(W, s) ==
    LET q1 == CancelAnimationFrame(W.q, W.subs[s].raf)
    IN  [W EXCEPT !.q = q1,
                  !.fx = Append(@, FxVal("cancel", Cardinality(W.q \ q1), 1))]

SetMouth(W, n) == [W EXCEPT !.mouth = n, !.fx = Append(@, MouthFx(n))]
SetViseme(W, c) == [W EXCEPT !.viseme = c, !.fx = Append(@, VisemeFx(c))]

Resume(W, a) ==
    [W EXCEPT !.graph[a] = "resuming", !.fx = Append(@, Fx("resume"))]

\* ------------------------------------------------ the closure's functions
\* Faulty variants of onPlay: one that does not cancel the stale callback,
\* one that resumes without looking at ctx.state.
OnPlayNoCancel(W, s) ==
    LET a == W.subs[s].audio
        W1 == IF CtxState(W.graph[a]) = "suspended" THEN Resume(W, a) ELSE W
    IN  RequestAnimationFrame(W1, s)

OnPlayAlwaysResume(W, s) ==
    RequestAnimationFrame(Cancel(Resume(W, W.subs[s].audio), s), s)

OnPlay(W, s) ==
    LET a == W.subs[s].audio
        W1 == IF CtxState(W.graph[a]) = "suspended" THEN Resume(W, a) ELSE W
        W2 == Cancel(W1, s)
    IN  RequestAnimationFrame(W2, s)

\* Faulty variants of onPause: the zeros ahead of the cancellation, and
\* onMouth(0) emitted twice.
OnPauseZerosFirst(W, s) ==
    LET W1 == SetMouth(W, 0)
        W2 == IF W.subs[s].viseme THEN SetViseme(W1, Zero) ELSE W1
    IN  Cancel(W2, s)

OnPauseTwice(W, s) ==
    LET W1 == SetMouth(SetMouth(Cancel(W, s), 0), 0)
    IN  IF W.subs[s].viseme THEN SetViseme(W1, Zero) ELSE W1

\* A faulty onPause that stops the loop and leaves the last values standing.
OnPauseKeepsValues(W, s) == Cancel(W, s)

OnPause(W, s) ==
    LET W1 == Cancel(W, s)
        W2 == SetMouth(W1, 0)
    IN  IF W.subs[s].viseme THEN SetViseme(W2, Zero) ELSE W2

Thrown(W) == [W EXCEPT !.fx = Append(@, Fx("throw"))]

\* Faulty variants of tick: one that never requests the next frame, one
\* without the try/catch, where a throw ends the tick.
TickNoReschedule(W, s, timeData, freqData, throws) ==
    LET W1 == SetMouth(W, Amp(timeData))
    IN  IF ~W.subs[s].viseme THEN W1
        ELSE IF throws THEN Thrown(W1)
        ELSE SetViseme(W1, ComputeSpectralCentroid(freqData))

TickThrowPropagates(W, s, timeData, freqData, throws) ==
    LET W1 == SetMouth(W, Amp(timeData))
    IN  IF ~W.subs[s].viseme THEN RequestAnimationFrame(W1, s)
        ELSE IF throws THEN Thrown(W1)
        ELSE RequestAnimationFrame(
                 SetViseme(W1, ComputeSpectralCentroid(freqData)), s)

\* A faulty tick that averages the loudness with the value before it.
TickSmoothed(W, s, timeData, freqData, throws) ==
    LET W1 == SetMouth(W, (W.mouth + Amp(timeData)) \div 2)
        W2 == IF ~W.subs[s].viseme THEN W1
              ELSE IF throws THEN Thrown(W1)
              ELSE SetViseme(W1, ComputeSpectralCentroid(freqData))
    IN  RequestAnimationFrame(W2, s)

\* `throws`: computeSpectralCentroid throws in this frame; the try/catch of
\* tick swallows it.
Tick(W, s, timeData, freqData, throws) ==
    LET W1 == SetMouth(W, Amp(timeData))
        W2 == IF ~W.subs[s].viseme THEN W1
              ELSE IF throws THEN Thrown(W1)
              ELSE SetViseme(W1, ComputeSpectralCentroid(freqData))
    IN  RequestAnimationFrame(W2, s)

Unlisten(W, s) ==
    [W EXCEPT !.ls = {l \in @ : l.s # s}, !.fx = Append(@, Fx("unlisten"))]

\* Faulty variants of the cleanup: one that leaves the callback scheduled,
\* one that resets only when a callback was scheduled.
CleanupNoCancel(W, s) ==
    LET W1 == SetMouth(Unlisten(W, s), 0)
    IN  IF W.subs[s].viseme THEN SetViseme(W1, Zero) ELSE W1

CleanupIfSampling(W, s) ==
    LET W1 == Unlisten(W, s)
        W2 == Cancel(W1, s)
        W3 == SetMouth(W2, 0)
    IN  IF W2.q = W1.q THEN W2
        ELSE IF W.subs[s].viseme THEN SetViseme(W3, Zero) ELSE W3

\* A faulty cleanup that leaves its three listeners on the element.
CleanupKeepsListeners(W, s) ==
    LET W2 == Cancel(W, s)
        W3 == SetMouth(W2, 0)
    IN  IF W.subs[s].viseme THEN SetViseme(W3, Zero) ELSE W3

\* A faulty cleanup that also drops the cached session of its element.
CleanupDropsSession(W, s) ==
    LET W1 == Unlisten(W, s)
        W2 == Cancel(W1, s)
        W3 == SetMouth(W2, 0)
        W4 == IF W.subs[s].viseme THEN SetViseme(W3, Zero) ELSE W3
    IN  [W4 EXCEPT !.graph[W.subs[s].audio] = NoEntry]

Cleanup(W, s) ==
    LET W1 == Unlisten(W, s)
        W2 == Cancel(W1, s)
        W3 == SetMouth(W2, 0)
    IN  IF W.subs[s].viseme THEN SetViseme(W3, Zero) ELSE W3

Handler(W, s, type) == IF type = "play" THEN OnPlay(W, s) ELSE OnPause(W, s)

\* The closure that hears an event first, or 0 when nobody listens.
First(S) == IF S = {} THEN 0 ELSE CHOOSE x \in S : \A y \in S : x <= y

\* An event runs the listeners registered for it, one after the other.
RECURSIVE RunListeners(_, _, _)
RunListeners(W, S, type) ==
    IF S = {} THEN W
    ELSE LET s == CHOOSE x \in S : \A y \in S : x <= y
         IN  RunListeners(Handler(W, s, type), S \ {s}, type)

\* ---------------------------------------------------- the viseme selector
\* The useFrame callback of AvatarCanvas: it smooths the mouth value,
\* switches the body animation, selects the mouth shape and sets the target
\* of every morph influence it drives.  The influences themselves and the
\* bone rotations are written from v and the selection and never read back
\* by the selection.  Arithmetic is exact: v and the viseme prop are
\* integers over VScale (four decimals), the mouth prop is an integer over
\* MScale, times are milliseconds.
VScale == 10000
Percent == 100
Smoothing == 35
TalkThreshold == 200
ClampTop == 9999
IntervalSlow == 240
IntervalFast == 60
NoViseme == -1
PaletteSize == 12
NoIndex == -2
NoAction == "none"
AnimSlow == 4000
AnimFast == 2000

MScale == Smoothing * VScale

Clamp(x, lo, hi) == Max(lo, Min(hi, x))

\* A faulty smoothing with the factor 0.2 in place of 0.35.
SmoothMouthSlow(v, m) == (80 * v + (20 * Clamp(m, 0, MScale)) \div Smoothing) \div Percent

\* A faulty smoothing that takes the mouth prop as it comes.
SmoothMouthUnclamped(v, m) == ((Percent - Smoothing) * v + m) \div Percent

\* lerp(mouthSmooth, clamp(mouth, 0, 1), 0.35) = 0.65 * v + 0.35 * mouth;
\* with mouth = m / MScale the second term is m over Percent * VScale.
SmoothMouth(v, m) == ((Percent - Smoothing) * v + Clamp(m, 0, MScale)) \div Percent

\* A faulty interval that grows with the loudness.
IntervalReversed(v) ==
    (VScale - Clamp(v, 0, VScale)) * IntervalFast + Clamp(v, 0, VScale) * IntervalSlow

\* lerp(0.24, 0.06, clamp(v, 0, 1)), exact: milliseconds times VScale.
Interval(v) ==
    (VScale - Clamp(v, 0, VScale)) * IntervalSlow + Clamp(v, 0, VScale) * IntervalFast

\* Math.floor(clamp(x, 0, 0.9999) * allShapeIndices.length)
PalettePos(x, n) == (Clamp(x, 0, ClampTop) * n) \div VScale

\* A faulty pick that takes the position for the morph index.
PickPosition(palette, pos) == pos

\* allShapeIndices[pos] || allShapeIndices[0]: a morph index of 0 is falsy.
Pick(palette, pos) ==
    IF palette[pos + 1] # 0 THEN palette[pos + 1] ELSE palette[1]

\* The morph indices a model file can give the talking shapes: none, two
\* with index 0 in second place, and one for each of the twelve names.
Palettes == {<<>>, <<5, 0>>, [i \in 1..PaletteSize |-> i]}

\* The values of v the frames of the model pass through, each within reach
\* of the one below it in one frame of silence.
VGrid == {0, 150, 230, 350, 530, 800, 1200, 1800, 2500, 3500, 5000, 7500}

\* The mouth props that take v to a value of VGrid, with one prop below 0
\* and one above 1; the viseme props; the time between two frames.
Mouths(v) ==
    {m \in {Percent * g - (Percent - Smoothing) * v : g \in VGrid}
            \cup {-MScale, 2 * MScale} :
        /\ (0 <= m /\ m <= MScale) \/ m \in {-MScale, 2 * MScale}
        /\ ((Percent - Smoothing) * v + Clamp(m, 0, MScale)) \div Percent \in VGrid
        /\ ((Percent - Smoothing) * v + Clamp(m, 0, MScale)) % Percent = 0}
Visemes == {0, 5000, VScale}
Deltas == {50, 100}

\* Where the mouth prop of a frame lies against the range [0, 1].
MouthRange(m) == IF m < 0 THEN "below" ELSE IF m > MScale THEN "above" ELSE "within"

\* /idle/i on the names of the clips a model file can carry.
ClipNames == {"Idle", "IdleLoop", "Talking", "Talking2", "Thinking"}
IdleLike(name) == name \in {"Idle", "IdleLoop"}

\* availableNames.filter((n) => !/idle/i.test(n))
Pool(names) == SelectSeq(names, LAMBDA n : ~IdleLike(n))

\* faceMeshes.flatMap((f) => f.shapeIndices)
RECURSIVE Flat(_)
Flat(meshes) ==
    IF meshes = <<>> THEN <<>>
    ELSE Head(meshes).shapeIndices \o Flat(Tail(meshes))

\* The refs of a freshly mounted canvas whose model file gave the face
\* meshes and the clips named; the init effect starts Idle, or else the
\* first clip.
AvatarStart(meshes, names) ==
    [faceMeshes |-> meshes, availableNames |-> names,
     allShapeIndices |-> Flat(meshes),
     mouthSmooth |-> 0, visemeTimer |-> 0, currentViseme |-> NoViseme,
     switchTimer |-> 0, animIndexRef |-> 0,
     currentAction |-> IF \E i \in DOMAIN names : names[i] = "Idle" THEN "Idle"
                       ELSE IF Len(names) > 0 THEN names[1] ELSE NoAction,
     writes |-> {}, mouthProp |-> "within", branch |-> "start"]

\* One face mesh that carries the palette next to a mouth-open shape, and
\* the clip Idle.
SelStart(palette) ==
    AvatarStart(<<[shapeIndices |-> palette, mouthIndex |-> PaletteSize + 1]>>,
                <<"Idle">>)

\* The face meshes a model file can give: none; one mesh for each palette;
\* a mesh with two shapes, one of them its mouth-open shape, next to a mesh
\* that has a mouth-open shape only and a mesh with one shape, of an index
\* the first mesh has too.
FaceMeshSets ==
    {<<>>,
     <<[shapeIndices |-> <<3, 4>>, mouthIndex |-> 4],
       [shapeIndices |-> <<>>, mouthIndex |-> 3],
       [shapeIndices |-> <<4>>, mouthIndex |-> NoIndex]>>}
    \cup {SelStart(palette).faceMeshes : palette \in Palettes}

\* The clips a model file can give.
ClipSets ==
    {<<>>, <<"Idle">>, <<"Talking">>, <<"Talking", "Idle">>,
     <<"Talking", "Thinking">>,
     <<"Idle", "Talking", "Talking2">>, <<"IdleLoop", "Talking", "Thinking">>}
LongDeltas == {1000, 2000}

Talking(v) == v > TalkThreshold

\* lerp(4.0, 2.0, clamp(v, 0, 1)), exact: milliseconds times VScale.
AnimInterval(v) ==
    (VScale - Clamp(v, 0, VScale)) * AnimSlow + Clamp(v, 0, VScale) * AnimFast

\* A faulty rotation that takes the clip at the cursor even when it is the
\* one that plays.
NextClipAtCursor(S, pool) ==
    LET nextIdx == S.animIndexRef % Len(pool)
    IN  [clip |-> pool[nextIdx + 1], cursor |-> nextIdx + 1]

\* The clip the rotation takes from the pool, and the cursor after it.
NextClip(S, pool) ==
    LET nextIdx == S.animIndexRef % Len(pool)
        altIdx == (nextIdx + 1) % Len(pool)
    IN  IF pool[nextIdx + 1] = S.currentAction
        THEN [clip |-> pool[altIdx + 1], cursor |-> altIdx + 1]
        ELSE [clip |-> pool[nextIdx + 1], cursor |-> nextIdx + 1]

\* A faulty rotation whose cursor counts the switches and never wraps.
TalkAnimationCounts(S, v, delta) ==
    LET t == S.switchTimer + delta
        pool == Pool(S.availableNames)
    IN  IF IdleLike(S.currentAction) \/ t * VScale >= AnimInterval(v)
        THEN IF Len(pool) > 0
             THEN [S EXCEPT !.switchTimer = 0,
                            !.animIndexRef = @ + 1,
                            !.currentAction = NextClip(S, pool).clip]
             ELSE [S EXCEPT !.switchTimer = 0]
        ELSE [S EXCEPT !.switchTimer = t]

\* The body animation of a talking frame: leave Idle at once, then switch
\* to the next clip of the pool every AnimInterval.
TalkAnimation(S, v, delta) ==
    LET t == S.switchTimer + delta
        pool == Pool(S.availableNames)
    IN  IF IdleLike(S.currentAction) \/ t * VScale >= AnimInterval(v)
        THEN IF Len(pool) > 0
             THEN [S EXCEPT !.switchTimer = 0,
                            !.animIndexRef = NextClip(S, pool).cursor,
                            !.currentAction = NextClip(S, pool).clip]
             ELSE [S EXCEPT !.switchTimer = 0]
        ELSE [S EXCEPT !.switchTimer = t]

\* The body animation of a frame that is not talking: back to Idle when the
\* model has a clip of that name.
SilentAnimation(S) ==
    [S EXCEPT !.switchTimer = 0,
              !.currentAction =
                  IF @ # "Idle" /\ \E i \in DOMAIN S.availableNames :
                                       S.availableNames[i] = "Idle"
                  THEN "Idle" ELSE @]

\* The else branch of `if (talking)`, in a frame that began with `was` as
\* the smoothed value.  One faulty variant keeps the selection and lets it
\* fade, another keeps the clip that was playing.
SilentKeepsSelection(S, was) ==
    [SilentAnimation(S) EXCEPT
        !.visemeTimer = 0,
        !.branch = IF Talking(was) THEN "stopped" ELSE "silent"]

SilentKeepsClip(S, was) ==
    [S EXCEPT !.switchTimer = 0, !.visemeTimer = 0, !.currentViseme = NoViseme,
              !.branch = IF Talking(was) THEN "stopped" ELSE "silent"]

Silent(S, was) ==
    [SilentAnimation(S) EXCEPT
        !.visemeTimer = 0, !.currentViseme = NoViseme,
        !.branch = IF Talking(was) THEN "stopped" ELSE "silent"]

\* The spectral path: the selection follows the viseme prop c.
Spectral(S, c) ==
    LET n == Len(S.allShapeIndices)
    IN  [S EXCEPT !.currentViseme = Pick(S.allShapeIndices, PalettePos(c, n)),
                  !.branch = "spectral"]

\* The cadence path.  Faulty variants: the timer runs on through a switch;
\* the switch comes at half the interval; the selection is made on every
\* tick.
CadenceKeepsTimer(S, v, delta) ==
    LET n == Len(S.allShapeIndices)
        t == S.visemeTimer + delta
    IN  IF t * VScale >= Interval(v)
        THEN [S EXCEPT !.visemeTimer = t,
                       !.currentViseme =
                           IF n > 0 THEN Pick(S.allShapeIndices, PalettePos(v, n))
                           ELSE NoViseme,
                       !.branch = "switched"]
        ELSE [S EXCEPT !.visemeTimer = t, !.branch = "held"]

CadenceEager(S, v, delta) ==
    LET n == Len(S.allShapeIndices)
        t == S.visemeTimer + delta
    IN  IF 2 * t * VScale >= Interval(v)
        THEN [S EXCEPT !.visemeTimer = 0,
                       !.currentViseme =
                           IF n > 0 THEN Pick(S.allShapeIndices, PalettePos(v, n))
                           ELSE NoViseme,
                       !.branch = "switched"]
        ELSE [S EXCEPT !.visemeTimer = t, !.branch = "held"]

CadenceEveryTick(S, v, delta) ==
    LET n == Len(S.allShapeIndices)
        t == S.visemeTimer + delta
        c == IF n > 0 THEN Pick(S.allShapeIndices, PalettePos(v, n)) ELSE NoViseme
    IN  IF t * VScale >= Interval(v)
        THEN [S EXCEPT !.visemeTimer = 0, !.currentViseme = c, !.branch = "switched"]
        ELSE [S EXCEPT !.visemeTimer = t, !.currentViseme = c, !.branch = "held"]

Cadence(S, v, delta) ==
    LET n == Len(S.allShapeIndices)
        t == S.visemeTimer + delta
    IN  IF t * VScale >= Interval(v)
        THEN [S EXCEPT !.visemeTimer = 0,
                       !.currentViseme =
                           IF n > 0 THEN Pick(S.allShapeIndices, PalettePos(v, n))
                           ELSE NoViseme,
                       !.branch = "switched"]
        ELSE [S EXCEPT !.visemeTimer = t, !.branch = "held"]

\* The targets one mesh's influences are moved toward in a frame, each with
\* the rule that wrote it.  Faulty variants: the fallback rule is missing;
\* every shape of the mesh opens; both rules write.
ShapeWrites(mesh, i, cur, v) ==
    {[mesh |-> i, idx |-> mesh.shapeIndices[k], rule |-> "shape",
      target |-> IF cur = mesh.shapeIndices[k] THEN v ELSE 0] :
        k \in DOMAIN mesh.shapeIndices}

MouthWrites(mesh, i, v) ==
    IF mesh.mouthIndex = NoIndex THEN {}
    ELSE {[mesh |-> i, idx |-> mesh.mouthIndex, rule |-> "mouth", target |-> v]}

MeshWritesNoFallback(mesh, i, cur, v) == ShapeWrites(mesh, i, cur, v)

MeshWritesEveryShape(mesh, i, cur, v) ==
    IF Len(mesh.shapeIndices) > 0
    THEN {[w EXCEPT !.target = v] : w \in ShapeWrites(mesh, i, cur, v)}
    ELSE MouthWrites(mesh, i, v)

MeshWritesBothRules(mesh, i, cur, v) ==
    ShapeWrites(mesh, i, cur, v) \cup MouthWrites(mesh, i, v)

MeshWrites(mesh, i, cur, v) ==
    IF Len(mesh.shapeIndices) > 0 THEN ShapeWrites(mesh, i, cur, v)
    ELSE MouthWrites(mesh, i, v)

\* faceMeshes.forEach: every mesh, with the selection and v of this frame.
ApplyInfluences(S, v) ==
    [S EXCEPT !.writes =
        UNION {MeshWrites(S.faceMeshes[i], i, S.currentViseme, v) :
                  i \in DOMAIN S.faceMeshes}]

\* One frame with the props mouth m and viseme c, delta after the last.
UseFrame(S, m, c, delta) ==
    LET v == SmoothMouth(S.mouthSmooth, m)
        S1 == [S EXCEPT !.mouthSmooth = v, !.mouthProp = MouthRange(m)]
        S2 == IF Talking(v)
              THEN IF c > 0 /\ Len(S.allShapeIndices) > 0
                   THEN Spectral(TalkAnimation(S1, v, delta), c)
                   ELSE Cadence(TalkAnimation(S1, v, delta), v, delta)
              ELSE Silent(S1, S.mouthSmooth)
    IN  ApplyInfluences(S2, v)

\* ------------------------------------------------------------- the state
World == [subs |-> subs, q |-> rafQueue, graph |-> graph, ls |-> listeners,
          mouth |-> mouth, viseme |-> viseme, fx |-> <<>>]

Sampling(W, s) == \E e \in W.q : e.s = s

\* A closure nothing refers to any more is gone.
Reachable(W, att) ==
    {s \in DOMAIN W.subs :
        s = att \/ (\E l \in W.ls : l.s = s) \/ (\E e \in W.q : e.s = s)}

\* ctx.state of the session of a as a handler finds it when it starts.
SeenCtx(a) == IF a = Null \/ graph[a] = NoEntry THEN NoEntry ELSE CtxState(graph[a])

\* The state after a handler: `who` is the closure whose code ran (0: none).
Commit(W, att, op, a, who) ==
    /\ subs' = [s \in Reachable(W, att) |-> W.subs[s]]
    /\ rafQueue' = W.q
    /\ graph' = W.graph
    /\ listeners' = W.ls
    /\ mouth' = W.mouth
    /\ viseme' = W.viseme
    /\ attached' = att
    /\ last' = IF who = 0 /\ op \notin {"attach", "unheard"} THEN last
               ELSE [op |-> op, audio |-> a, s |-> who, ctx |-> SeenCtx(a),
                     fx |-> W.fx]
    /\ UNCHANGED <<sel, probe, srv, box>>

NoProbe == [f |-> "none"]
NoRequest == [endpoint |-> "none"]
NoBox == [version |-> 0]

EngineInit ==
    /\ graph = [a \in Resources |-> NoEntry]
    /\ nodes = [a \in Resources |-> 0]
    /\ audioRef = Null
    /\ paused = TRUE
    /\ currentTime = 0
    /\ subs = [s \in {} |-> 0]
    /\ attached = 0
    /\ listeners = {}
    /\ rafQueue = {}
    /\ mouth = 0
    /\ viseme = Zero
    /\ last = [op |-> "init", audio |-> Null, s |-> 0, ctx |-> NoEntry, fx |-> <<>>]

Init ==
    /\ EngineInit
    /\ sel = SelStart(<<>>)
    /\ probe = NoProbe
    /\ srv = NoRequest
    /\ box = NoBox

\* ------------------------------------------------------------ the effect
\* The cache miss of the effect: new AudioContext, createMediaElementSource,
\* createAnalyser, connect, graph.set.  A new context starts suspended or
\* running, as the platform's autoplay policy decides.
Construct(W, a, ctx0) ==
    [W EXCEPT !.graph[a] = ctx0, !.fx = Append(@, Fx("construct"))]

\* A faulty lookup that constructs on every attach.
GetEntryNoCache(W, a, ctx0) == Construct(W, a, ctx0)

GetEntry(W, a, ctx0) == IF W.graph[a] = NoEntry THEN Construct(W, a, ctx0) ELSE W

FreshSub(W) == CHOOSE n \in 1..(Cardinality(DOMAIN W.subs) + 1) : n \notin DOMAIN W.subs

AddListeners(W, a, s) ==
    [W EXCEPT !.ls = @ \cup {[audio |-> a, type |-> t, s |-> s] : t \in EventTypes},
              !.fx = Append(@, Fx("listen"))]

\* What the effect reads off the element: audio.paused, and audio.currentTime
\* when the element is not paused (the && does not read it otherwise).
ReadPlayback(W, p, t) ==
    LET W1 == [W EXCEPT !.fx = Append(@, FxVal("paused", IF p THEN 1 ELSE 0, 1))]
    IN  IF p THEN W1 ELSE [W1 EXCEPT !.fx = Append(@, FxVal("currentTime", t, 1))]

\* A faulty effect that starts the loop for every element that is not
\* paused, whatever its position.
EffectIgnoresPosition(W, a, v, ctx0, p, t) ==
    LET s == FreshSub(W)
        W1 == GetEntry(W, a, ctx0)
        W2 == [W1 EXCEPT !.subs = [x \in DOMAIN @ \cup {s} |->
                            IF x = s THEN [audio |-> a, raf |-> NoRaf, viseme |-> v]
                            ELSE @[x]]]
        W3 == ReadPlayback(AddListeners(W2, a, s), p, t)
    IN  IF ~p THEN OnPlay(W3, s) ELSE W3

\* The body of the effect for the element a, which is paused or not (p) and
\* at position t.
Effect(W, a, v, ctx0, p, t) ==
    LET s == FreshSub(W)
        W1 == GetEntry(W, a, ctx0)
        W2 == [W1 EXCEPT !.subs = [x \in DOMAIN @ \cup {s} |->
                            IF x = s THEN [audio |-> a, raf |-> NoRaf, viseme |-> v]
                            ELSE @[x]]]
        W3 == ReadPlayback(AddListeners(W2, a, s), p, t)
    IN  IF ~p /\ t > 0 THEN OnPlay(W3, s) ELSE W3

Constructions(fx) == Cardinality({i \in DOMAIN fx : fx[i].e = "construct"})

\* A faulty effect that resets the mouth before it checks for the element.
AttachNullEmits ==
    /\ attached = 0
    /\ Commit(SetMouth(World, 0), 0, "attach", Null, 0)
    /\ UNCHANGED <<nodes, audioRef, paused, currentTime>>

\* The effect runs with audioRef.current = Null and returns at once.
AttachNull ==
    /\ attached = 0
    /\ Commit(World, 0, "attach", Null, 0)
    /\ UNCHANGED <<nodes, audioRef, paused, currentTime>>

\* The effect runs with audioRef.current = a, an element in any playback
\* state, and with or without setViseme (v).
Attach(a, v, ctx0, p, t) ==
    /\ attached = 0
    /\ LET W == Effect(World, a, v, ctx0, p, t)
       IN  /\ Commit(W, FreshSub(World), "attach", a, FreshSub(World))
           /\ nodes' = [nodes EXCEPT ![a] = @ + Constructions(W.fx)]
    /\ audioRef' = a
    /\ paused' = p
    /\ currentTime' = t

\* The cleanup the effect returned: unmount, or a change of its dependencies.
Detach ==
    /\ attached # 0
    /\ Commit(Cleanup(World, attached), 0, "detach", subs[attached].audio, attached)
    /\ audioRef' = Null
    /\ paused' = TRUE
    /\ currentTime' = 0
    /\ UNCHANGED nodes

\* --------------------------------------------------------- the platform
ListenersOf(W, a, type) == {l.s : l \in {x \in W.ls : x.audio = a /\ x.type = type}}

\* One media event of element a reaches its listeners.  An element the hook
\* has let go of still plays, pauses and ends; an event nobody listens to is
\* recorded as "unheard".
Dispatch(a, type) ==
    /\ \/ a = audioRef
       \/ ListenersOf(World, a, type) # {}
       \/ graph[a] # NoEntry
    /\ Commit(RunListeners(World, ListenersOf(World, a, type), type),
              attached,
              IF ListenersOf(World, a, type) = {} THEN "unheard" ELSE type,
              a, First(ListenersOf(World, a, type)))
    /\ paused' = IF a # audioRef THEN paused
                 ELSE IF type = "play" THEN FALSE
                 ELSE IF type = "pause" THEN TRUE ELSE paused
    /\ UNCHANGED <<nodes, audioRef, currentTime>>

\* Playback moves on: currentTime > 0.
Advance ==
    /\ audioRef # Null
    /\ ~paused
    /\ currentTime = 0
    /\ currentTime' = 1
    /\ UNCHANGED <<graph, nodes, audioRef, paused, subs, attached, listeners,
                   rafQueue, mouth, viseme, last, sel, probe, srv, box>>

\* The Stop button of App: audio.pause(); audio.currentTime = 0.  pause()
\* fires the pause event only when the element was not paused.
Stop ==
    /\ audioRef # Null
    /\ LET S == IF paused THEN {} ELSE ListenersOf(World, audioRef, "pause")
       IN  Commit(RunListeners(World, S, "pause"), attached, "stop", audioRef, First(S))
    /\ paused' = TRUE
    /\ currentTime' = 0
    /\ UNCHANGED <<nodes, audioRef>>

\* The promise of ctx.resume() settles.
ResumeSettles(a) ==
    /\ graph[a] = "resuming"
    /\ graph' = [graph EXCEPT ![a] = "running"]
    /\ UNCHANGED <<nodes, audioRef, paused, currentTime, subs, attached,
                   listeners, rafQueue, mouth, viseme, last, sel, probe, srv, box>>

\* The next animation frame runs a scheduled callback.
Frame(e, timeData, freqData, throws) ==
    /\ e \in rafQueue
    /\ LET W0 == [World EXCEPT !.q = @ \ {e}]
       IN  Commit(Tick(W0, e.s, timeData, freqData, throws), attached, "tick",
                  subs[e.s].audio, e.s)
    /\ UNCHANGED <<nodes, audioRef, paused, currentTime>>

Next ==
    \/ AttachNull
    \/ \E a \in Resources, v \in BOOLEAN, c \in {"suspended", "running"},
          p \in BOOLEAN, t \in {0, 1} : Attach(a, v, c, p, t)
    \/ Detach
    \/ \E a \in Resources, t \in EventTypes : Dispatch(a, t)
    \/ Advance
    \/ Stop
    \/ \E a \in Resources : ResumeSettles(a)
    \/ \E e \in rafQueue, td \in TimeWindows, fd \in Spectra : Frame(e, td, fd, FALSE)
    \/ \E e \in rafQueue, td \in TimeWindows : Frame(e, td, Silence, TRUE)

Spec == Init /\ [][Next]_vars

\* ------------------------------------------- the selector, frame by frame
engineVars == <<graph, nodes, audioRef, paused, currentTime, subs, attached,
                listeners, rafQueue, mouth, viseme, last>>

\* The canvas mounts with the refs at their initial values and the palette
\* its model file gives it.
SelectorInit ==
    /\ EngineInit
    /\ probe = NoProbe
    /\ srv = NoRequest
    /\ box = NoBox
    /\ \E meshes \in FaceMeshSets : sel = AvatarStart(meshes, <<"Idle">>)

\* The renderer calls the useFrame callback.
RenderFrame(m, c, delta) ==
    /\ sel' = UseFrame(sel, m, c, delta)
    /\ UNCHANGED <<engineVars, probe, srv, box>>

SelectorNext ==
    \E m \in Mouths(sel.mouthSmooth), c \in Visemes, delta \in Deltas :
        RenderFrame(m, c, delta)

SelectorSpec == SelectorInit /\ [][SelectorNext]_vars

\* The body animation, at frames far enough apart for the clips to rotate:
\* a model with any of the clip sets, the viseme prop left at its default.
AnimationInit ==
    /\ EngineInit
    /\ probe = NoProbe
    /\ srv = NoRequest
    /\ box = NoBox
    /\ \E names \in ClipSets : sel = AvatarStart(SelStart(<<>>).faceMeshes, names)

AnimationNext ==
    \E m \in Mouths(sel.mouthSmooth), delta \in LongDeltas : RenderFrame(m, 0, delta)

AnimationSpec == AnimationInit /\ [][AnimationNext]_vars

\* ------------------------------------------------------------ the claims
Count(fx, e) == Cardinality({i \in DOMAIN fx : fx[i].e = e})
\* Where effect e comes first in fx; 0 when it does not occur.
Pos(fx, e) == IF Count(fx, e) = 0 THEN 0
              ELSE CHOOSE i \in DOMAIN fx :
                       fx[i].e = e /\ \A j \in DOMAIN fx : fx[j].e = e => i <= j
ZeroCalls(fx, e) == Cardinality({i \in DOMAIN fx : fx[i].e = e /\ fx[i].n = 0})
Scheduled(s) == {e \in rafQueue : e.s = s}
StopOps == {"pause", "ended", "stop"}
\* The closure of the last handler asked for setViseme.
LastWantsViseme == last.s \in DOMAIN subs /\ subs[last.s].viseme

C2_ZerosBeforeCancel ==
    last.op \in {"pause", "ended"} =>
        /\ Pos(last.fx, "mouth") < Pos(last.fx, "cancel")
        /\ LastWantsViseme => Pos(last.fx, "viseme") < Pos(last.fx, "cancel")

\* C2 as amended: on pause or ended the handler cancels the frame callback
\* and then invokes onMouth(0) and (when supplied) onViseme(0), in that
\* order and in the same run, after which nothing is scheduled.
C2_CancelThenZeros ==
    last.op \in {"pause", "ended"} =>
        /\ Len(last.fx) >= 2
        /\ last.fx[1].e = "cancel"
        /\ last.fx[2] = MouthFx(0)
        /\ IF LastWantsViseme
           THEN Len(last.fx) = 3 /\ last.fx[3] = VisemeFx(Zero)
           ELSE Len(last.fx) = 2
        /\ Scheduled(last.s) = {}

\* A pause or ended event stopped a running loop.
C2_Witness ==
    /\ last.op \in {"pause", "ended"}
    /\ last.fx[1] = FxVal("cancel", 1, 1)
    /\ LastWantsViseme

\* C3: once detach has returned, no tick of that subscription runs: every
\* scheduled callback, and every tick that ran, belongs to the attached
\* subscription, and while nothing is attached the delivered values stay 0.
C3_NoTickAfterDetach ==
    /\ \A e \in rafQueue : attached # 0 /\ e.s = attached
    /\ last.op = "tick" => last.s = attached
    /\ attached = 0 => mouth = 0 /\ viseme = Zero

\* Detach found a callback scheduled and cancelled it.
C3_Witness ==
    /\ last.op = "detach"
    /\ last.fx[2] = FxVal("cancel", 1, 1)

\* C4: a subscription never has two frame callbacks scheduled; a play event
\* cancels before it schedules.
C4_OneCallbackScheduled ==
    /\ \A s \in DOMAIN subs : Cardinality(Scheduled(s)) <= 1
    /\ last.op = "play" =>
           /\ Count(last.fx, "cancel") = 1
           /\ Count(last.fx, "raf") = 1
           /\ Pos(last.fx, "cancel") < Pos(last.fx, "raf")

\* Play fired while the loop was running: the pending callback was replaced.
C4_Witness ==
    /\ last.op = "play"
    /\ \E i \in DOMAIN last.fx : last.fx[i] = FxVal("cancel", 1, 1)
    /\ Cardinality(Scheduled(last.s)) = 1

\* C5: a play event leaves the subscription Sampling, its one callback
\* scheduled for the next frame, and calls resume exactly once when the
\* context was suspended at that event and not at all otherwise.
C5_PlayStartsSampling ==
    last.op = "play" =>
        /\ Scheduled(last.s) = {[id |-> subs[last.s].raf, s |-> last.s]}
        /\ Count(last.fx, "resume") = (IF last.ctx = "suspended" THEN 1 ELSE 0)

\* Attach to a paused element, then play with the context suspended.
C5_Witness ==
    /\ last.op = "play"
    /\ last.ctx = "suspended"
    /\ last.fx = <<Fx("resume"), FxVal("cancel", 0, 1), Fx("raf")>>

C7_OneUpdatePerFrame ==
    last.op = "tick" =>
        /\ Count(last.fx, "mouth") = 1 /\ last.fx[1].e = "mouth"
        /\ Count(last.fx, "viseme") <= 1
        /\ Count(last.fx, "viseme") = 1 => Pos(last.fx, "viseme") = 2
        /\ Count(last.fx, "raf") = 1 /\ last.fx[Len(last.fx)].e = "raf"
        /\ Scheduled(last.s) = {[id |-> subs[last.s].raf, s |-> last.s]}
        /\ mouth = last.fx[1].n

\* A tick delivered a loudness above 0 and a centroid.
C7_Witness ==
    /\ last.op = "tick"
    /\ Len(last.fx) = 3
    /\ last.fx[1].n > 0
    /\ last.fx[2].e = "viseme"

\* C8: when the centroid computation throws, the tick has delivered its
\* loudness, skips onViseme, still requests the next frame and the
\* subscription stays Sampling.
C8_ThrowSkipsOnlyViseme ==
    last.op = "tick" /\ Count(last.fx, "throw") > 0 =>
        /\ Len(last.fx) = 3
        /\ last.fx[1].e = "mouth" /\ mouth = last.fx[1].n
        /\ last.fx[2].e = "throw"
        /\ last.fx[3].e = "raf"
        /\ Cardinality(Scheduled(last.s)) = 1

\* The centroid computation threw in a tick of a loud frame.
C8_Witness ==
    /\ last.op = "tick"
    /\ Count(last.fx, "throw") = 1
    /\ mouth > 0
    /\ Cardinality(Scheduled(last.s)) = 1

\* C9: attach without an element does nothing: no session, no listener, no
\* frame callback, no call of onMouth or onViseme, nothing attached.
C9_NullAttachIsNoOp ==
    last.op = "attach" /\ last.audio = Null =>
        /\ last.fx = <<>>
        /\ attached = 0
        /\ DOMAIN subs = {}
        /\ listeners = {}
        /\ rafQueue = {}
        /\ mouth = 0 /\ viseme = Zero

\* Attach without an element after a session was created earlier.
C9_Witness ==
    /\ last.op = "attach"
    /\ last.audio = Null
    /\ \E a \in Resources : graph[a] # NoEntry

\* C10: detach removes the listeners, cancels and emits the zeros whether or
\* not a callback was scheduled, and always ends in the same engine state.
C10_DetachUnconditional ==
    last.op = "detach" =>
        /\ Len(last.fx) >= 3
        /\ last.fx[1].e = "unlisten"
        /\ last.fx[2].e = "cancel"
        /\ last.fx[3] = MouthFx(0)
        /\ Count(last.fx, "viseme") = ZeroCalls(last.fx, "viseme")
        /\ attached = 0 /\ DOMAIN subs = {} /\ listeners = {} /\ rafQueue = {}
        /\ mouth = 0 /\ viseme = Zero

\* Detach of a subscription that was Idle, its last callback long cancelled.
C10_Witness ==
    /\ last.op = "detach"
    /\ last.fx = <<Fx("unlisten"), FxVal("cancel", 0, 1), MouthFx(0), VisemeFx(Zero)>>
\* The element as the attach read it.
ReadPaused(fx) == \E i \in DOMAIN fx : fx[i] = FxVal("paused", 1, 1)
ReadPosition(fx) == IF Count(fx, "currentTime") = 0 THEN 0
                    ELSE fx[Pos(fx, "currentTime")].n
Attached == last.op = "attach" /\ last.audio # Null

C12_MouthInUnitRange ==
    /\ 0 <= mouth /\ mouth <= AmpDen
    /\ \A i \in DOMAIN last.fx :
           last.fx[i].e = "mouth" =>
               /\ last.fx[i].d = AmpDen
               /\ 0 <= last.fx[i].n /\ last.fx[i].n <= last.fx[i].d

\* A tick of a window whose loudness times the gain exceeds 1 delivered 1.
C12_Witness ==
    /\ last.op = "tick"
    /\ last.fx[1] = MouthFx(AmpDen)
    /\ mouth = AmpDen
    /\ Loud * FftSize * Gain > AmpDen

\* C17: detach removes the subscription's listeners and cancels its loop
\* and leaves every cached session as it was; and no step of any kind
\* removes a session once it exists or constructs for its resource again.
C17_DetachKeepsSession ==
    [][/\ \A a \in Resources :
              graph[a] # NoEntry => graph'[a] # NoEntry /\ nodes'[a] = nodes[a]
       /\ attached # 0 /\ attached' = 0 =>
              /\ graph' = graph /\ nodes' = nodes
              /\ listeners' = {l \in listeners : l.s # attached}
              /\ rafQueue' = {e \in rafQueue : e.s # attached}]_vars

\* Detach while the session's resume was still pending: the session stays.
C17_Witness ==
    /\ last.op = "detach"
    /\ last.fx[1].e = "unlisten"
    /\ graph[last.audio] = "resuming"
    /\ nodes[last.audio] = 1
    /\ listeners = {}

\* C18: while no frame callback is scheduled (Idle: after pause, ended, Stop
\* or detach, or attached and never played) the consumer holds 0 for mouth
\* and for viseme; a value above 0 is delivered by ticks only, and a tick
\* leaves its subscription Sampling.
C18_IdleHoldsZero ==
    /\ rafQueue = {} => mouth = 0 /\ viseme = Zero
    /\ \A i \in DOMAIN last.fx :
           last.fx[i].e \in {"mouth", "viseme"} /\ last.fx[i].n > 0 =>
               last.op = "tick"
    /\ last.op = "tick" => Scheduled(last.s) # {}

\* The ended event stopped a running loop of a subscription that stays
\* attached.
C18_Witness ==
    /\ last.op = "ended"
    /\ attached = last.s
    /\ last.fx[1] = FxVal("cancel", 1, 1)
    /\ rafQueue = {}
    /\ mouth = 0

\* C30: a play, pause or ended event of an element the hook is not attached
\* to (detached, and not attached again since) calls neither setMouth nor
\* setViseme and schedules no frame: no handler runs at all.
C30_DetachedEventsAreUnheard ==
    [][\A a \in Resources, type \in EventTypes :
          /\ Dispatch(a, type)
          /\ graph[a] # NoEntry
          /\ attached = 0 \/ subs[attached].audio # a
          => /\ last'.op = "unheard"
             /\ last'.fx = <<>>
             /\ UNCHANGED <<mouth, viseme, rafQueue, listeners, graph>>]_vars

\* A detached element has just fired an event while nothing was attached.
C30_Witness ==
    /\ last.op = "unheard"
    /\ attached = 0
    /\ last.audio # Null
    /\ graph[last.audio] # NoEntry
    /\ rafQueue = {}
    /\ listeners = {}

\* ------------------------------------------- the functions on their own
ProbeBins == 3
ProbeMags == {-2, 0, 1, 3}
ProbeSpectra == [0..(ProbeBins - 1) -> ProbeMags]
IntervalInputs == VGrid \cup {TalkThreshold, TalkThreshold + 1, ClampTop, VScale}

CentroidProbes ==
    {[f |-> "centroid", freqData |-> fd, done |-> FALSE, out |-> Zero] :
        fd \in ProbeSpectra}
IntervalProbes ==
    {[f |-> "interval", v1 |-> a, v2 |-> b, done |-> FALSE, i1 |-> 0, i2 |-> 0] :
        a \in IntervalInputs, b \in IntervalInputs}

\* Windows of samples at the centre, one and two steps around a deviation
\* of an eighth, and at both ends of the byte range; the tick runs in a
\* subscription whose consumer holds `prev`.
ProbeSamples == {0, 113, 128, 143, 144, 255}
ProbeWindows == [0..(FftSize - 1) -> ProbeSamples]
TickProbes ==
    {[f |-> "tick", timeData |-> td, prev |-> p, done |-> FALSE, out |-> 0,
      fx |-> <<>>] : td \in ProbeWindows, p \in {0, AmpDen}}

ProbeWorld(prev) ==
    [subs |-> [s \in {1} |-> [audio |-> 1, raf |-> NoRaf, viseme |-> FALSE]],
     q |-> {}, graph |-> [a \in Resources |-> IF a = 1 THEN "running" ELSE NoEntry],
     ls |-> {}, mouth |-> prev, viseme |-> Zero, fx |-> <<>>]

FunctionInit ==
    /\ EngineInit
    /\ sel = SelStart(<<>>)
    /\ srv = NoRequest
    /\ box = NoBox
    /\ probe \in CentroidProbes \cup IntervalProbes \cup TickProbes

ApplyCentroid ==
    /\ probe.f = "centroid"
    /\ ~probe.done
    /\ probe' = [probe EXCEPT !.done = TRUE,
                              !.out = ComputeSpectralCentroid(probe.freqData)]
    /\ UNCHANGED <<engineVars, sel, srv, box>>

ApplyInterval ==
    /\ probe.f = "interval"
    /\ ~probe.done
    /\ probe' = [probe EXCEPT !.done = TRUE,
                              !.i1 = Interval(probe.v1), !.i2 = Interval(probe.v2)]
    /\ UNCHANGED <<engineVars, sel, srv, box>>

ApplyTick ==
    /\ probe.f = "tick"
    /\ ~probe.done
    /\ LET W == Tick(ProbeWorld(probe.prev), 1, probe.timeData, Silence, FALSE)
       IN  probe' = [probe EXCEPT !.done = TRUE, !.out = W.mouth, !.fx = W.fx]
    /\ UNCHANGED <<engineVars, sel, srv, box>>

FunctionNext == ApplyCentroid \/ ApplyInterval \/ ApplyTick

FunctionSpec == FunctionInit /\ [][FunctionNext]_vars

\* The sum of f over the set S.
RECURSIVE SumOver(_, _)
SumOver(f, S) ==
    IF S = {} THEN 0
    ELSE LET x == CHOOSE y \in S : TRUE
         IN  f[x] + SumOver(f, S \ {x})

\* C13: the centroid of a spectrum whose bins are all zero or negative is
\* 0; of any other spectrum it is the sum of index times max(0, magnitude)
\* over the sum of max(0, magnitude), divided by the number of bins less
\* one, a value in [0, 1].
C13_CentroidNormalised ==
    probe.f = "centroid" /\ probe.done =>
        LET fd == probe.freqData
            energy == [i \in DOMAIN fd |-> IF fd[i] > 0 THEN fd[i] ELSE 0]
            weighted == [i \in DOMAIN fd |-> i * energy[i]]
            E == SumOver(energy, DOMAIN fd)
            W == SumOver(weighted, DOMAIN fd)
        IN  IF \A i \in DOMAIN fd : fd[i] <= 0
            THEN probe.out = Zero
            ELSE /\ probe.out.d > 0
                 /\ probe.out.n * (E * (Bins(fd) - 1)) = probe.out.d * W
                 /\ 0 <= probe.out.n /\ probe.out.n <= probe.out.d

\* A spectrum with a negative bin and energy in two bins, whose centroid
\* lies strictly between 0 and 1.
C13_Witness ==
    /\ probe.f = "centroid" /\ probe.done
    /\ \E i \in DOMAIN probe.freqData : probe.freqData[i] < 0
    /\ \E i, j \in DOMAIN probe.freqData :
           i # j /\ probe.freqData[i] > 0 /\ probe.freqData[j] > 0
    /\ 0 < probe.out.n /\ probe.out.n < probe.out.d

\* C14: the switching interval is 0.24 - 0.18 * v, within [0.06, 0.24],
\* and for v1 < v2, both above 0.02, interval(v2) <= interval(v1).
C14_IntervalShrinksWithLoudness ==
    probe.f = "interval" /\ probe.done =>
        /\ probe.i1 = IntervalSlow * VScale - (IntervalSlow - IntervalFast) * probe.v1
        /\ IntervalFast * VScale <= probe.i1 /\ probe.i1 <= IntervalSlow * VScale
        /\ Talking(probe.v1) /\ probe.v1 < probe.v2 => probe.i2 <= probe.i1

\* Two loudness values above the threshold whose intervals differ.
C14_Witness ==
    /\ probe.f = "interval" /\ probe.done
    /\ Talking(probe.v1) /\ probe.v1 < probe.v2
    /\ probe.i2 < probe.i1
    /\ probe.i2 >= IntervalFast * VScale

\* C26: the loudness a tick publishes is min(1, 8 * mean |sample - 128| /
\* 128) of its window: 0 for a window at 128 throughout, 1 exactly when the
\* mean deviation is an eighth or more, and the same whatever value the
\* tick before it published.
C26_LoudnessOfWindow ==
    probe.f = "tick" /\ probe.done =>
        LET td == probe.timeData
            dev == [i \in DOMAIN td |->
                       IF td[i] >= 128 THEN td[i] - 128 ELSE 128 - td[i]]
            D == SumOver(dev, DOMAIN td)
            N == Cardinality(DOMAIN td)
        IN  /\ Count(probe.fx, "mouth") = 1
            /\ probe.fx[1] = MouthFx(probe.out)
            /\ probe.out = (IF 8 * D >= 128 * N THEN 128 * N ELSE 8 * D)
            /\ (\A i \in DOMAIN td : td[i] = 128) => probe.out = 0
            /\ probe.out = AmpDen <=> 8 * D >= N * 128

\* A tick after a full-scale value, on a window one step short of an
\* eighth: the loudness is just below 1.
C26_Witness ==
    /\ probe.f = "tick" /\ probe.done
    /\ probe.prev = AmpDen
    /\ \E i \in DOMAIN probe.timeData :
           /\ probe.timeData[i] = 143
           /\ \A j \in DOMAIN probe.timeData \ {i} : probe.timeData[j] = 144
    /\ probe.out = AmpDen - 8

\* ------------------------------------------------ the selector's claims
Palette == sel.allShapeIndices
\* The frame took the cadence path: talking, and no spectral selection.
CadencePath(c) ==
    Talking(sel'.mouthSmooth) /\ ~(c > 0 /\ Len(Palette) > 0)

\* C15 as stated: a cadence frame whose timer reaches the interval resets
\* the timer to 0 and selects the palette entry at position
\* floor(clamp(v, 0, 0.9999) * N), a position in [0, N).
C15_CadenceSelectsEntry ==
    [][\A m \in Mouths(sel.mouthSmooth), c \in Visemes, delta \in Deltas :
          /\ RenderFrame(m, c, delta)
          /\ CadencePath(c)
          /\ Len(Palette) > 0
          /\ (sel.visemeTimer + delta) * VScale >= Interval(sel'.mouthSmooth)
          => /\ sel'.visemeTimer = 0
             /\ PalettePos(sel'.mouthSmooth, Len(Palette)) \in 0..(Len(Palette) - 1)
             /\ sel'.currentViseme =
                    Palette[PalettePos(sel'.mouthSmooth, Len(Palette)) + 1]]_vars

\* C16: the first frame with v at or below 0.02 after a talking frame
\* clears the selection and the cadence timer within that frame.
C16_SilenceClearsAtOnce ==
    [][Talking(sel.mouthSmooth) /\ ~Talking(sel'.mouthSmooth) =>
          sel'.currentViseme = NoViseme /\ sel'.visemeTimer = 0]_vars

\* A talking frame was followed by a frame at or below the threshold.
C16_Witness ==
    /\ sel.branch = "stopped"
    /\ sel.mouthSmooth > 0
    /\ Len(Palette) > 0
    /\ sel.currentViseme = NoViseme
    /\ sel.visemeTimer = 0

\* C19 as stated: a talking frame with a viseme prop c above 0 and a
\* palette of N > 0 entries selects the entry at position
\* floor(clamp(c, 0, 0.9999) * N) and leaves the cadence timer alone.
C19_SpectralSelectsEntry ==
    [][\A m \in Mouths(sel.mouthSmooth), c \in Visemes, delta \in Deltas :
          /\ RenderFrame(m, c, delta)
          /\ Talking(sel'.mouthSmooth)
          /\ c > 0
          /\ Len(Palette) > 0
          => /\ sel'.currentViseme = Palette[PalettePos(c, Len(Palette)) + 1]
             /\ sel'.visemeTimer = sel.visemeTimer]_vars

\* C20: a cadence frame whose timer stays below the interval leaves the
\* selection as it was and adds the frame's delta to the timer.
C20_HeldFrameKeepsSelection ==
    [][\A m \in Mouths(sel.mouthSmooth), c \in Visemes, delta \in Deltas :
          /\ RenderFrame(m, c, delta)
          /\ CadencePath(c)
          /\ (sel.visemeTimer + delta) * VScale < Interval(sel'.mouthSmooth)
          => /\ sel'.currentViseme = sel.currentViseme
             /\ sel'.visemeTimer = sel.visemeTimer + delta
             /\ sel'.allShapeIndices = sel.allShapeIndices]_vars

\* A frame on the cadence path held a selection made earlier.
C20_Witness ==
    /\ sel.branch = "held"
    /\ sel.currentViseme # NoViseme
    /\ sel.visemeTimer > 0

\* C31: the selection is none or a morph index that is an entry of the
\* palette, in every state.
C31_SelectionInPalette ==
    \/ sel.currentViseme = NoViseme
    \/ \E k \in DOMAIN Palette : Palette[k] = sel.currentViseme

\* A spectral frame of the two-entry palette has selected its first entry,
\* the one the falsy second entry falls back to.
C31_Witness ==
    /\ Palette = <<5, 0>>
    /\ sel.branch = "spectral"
    /\ sel.currentViseme = Palette[1]

\* ---------------------------------------------- the influences of a frame
Meshes == sel.faceMeshes
ShapeTargets(i) == {w \in sel.writes : w.mesh = i /\ w.rule = "shape"}
Hot(i) == {w \in ShapeTargets(i) : w.target # 0}

\* C21: with an empty palette the selection is none in every state, and a
\* frame moves exactly the mouth-open shape of each face mesh, toward v;
\* no write comes from the discrete rule.
C21_EmptyPaletteIsContinuous ==
    Palette = <<>> =>
        /\ sel.currentViseme = NoViseme
        /\ \A w \in sel.writes : w.rule = "mouth" /\ w.target = sel.mouthSmooth
        /\ sel.branch # "start" =>
               \A i \in DOMAIN Meshes :
                   /\ Meshes[i].mouthIndex # NoIndex
                   /\ \E w \in sel.writes :
                          w.mesh = i /\ w.idx = Meshes[i].mouthIndex

\* A talking frame of a model without palette, the cadence interval over.
C21_Witness ==
    /\ Palette = <<>>
    /\ Meshes # <<>>
    /\ sel.branch = "switched"
    /\ Talking(sel.mouthSmooth)
    /\ \E w \in sel.writes : w.rule = "mouth" /\ w.target = sel.mouthSmooth

\* C22: in every frame every shape of a mesh's palette gets a target; the
\* target is v for the shapes whose index is the selection, at most one in
\* each mesh, and 0 for every other shape; with no selection all are 0.
C22_OneHotShape ==
    sel.branch # "start" =>
        \A i \in DOMAIN Meshes :
            /\ \A k \in DOMAIN Meshes[i].shapeIndices :
                   \E w \in ShapeTargets(i) : w.idx = Meshes[i].shapeIndices[k]
            /\ \A w \in ShapeTargets(i) :
                   w.target = (IF w.idx = sel.currentViseme
                               THEN sel.mouthSmooth ELSE 0)
            /\ Cardinality(Hot(i)) <= 1
            /\ sel.currentViseme = NoViseme => Hot(i) = {}

\* A talking frame of the twelve-shape model with one shape hot.
C22_Witness ==
    /\ Len(Palette) = PaletteSize
    /\ sel.currentViseme # NoViseme
    /\ Cardinality(ShapeTargets(1)) = PaletteSize
    /\ \E w \in Hot(1) : w.idx = sel.currentViseme /\ w.target = sel.mouthSmooth

\* C23: a frame takes v to v + 0.35 * (clamp(mouth, 0, 1) - v), and v stays
\* within [0, 1] whatever the mouth props were, those below 0 and above 1
\* included.
C23_SmoothingStaysInRange ==
    [][\A m \in Mouths(sel.mouthSmooth), c \in Visemes, delta \in Deltas :
          RenderFrame(m, c, delta) =>
              LET raw == IF m < 0 THEN 0 ELSE IF m > MScale THEN MScale ELSE m
              IN  /\ Percent * sel'.mouthSmooth =
                         Percent * sel.mouthSmooth + raw - Smoothing * sel.mouthSmooth
                  /\ 0 <= sel'.mouthSmooth
                  /\ sel'.mouthSmooth <= VScale]_vars

\* A frame whose mouth prop was above 1 took v from 0 to 0.35.
C23_Witness ==
    /\ sel.mouthProp = "above"
    /\ sel.mouthSmooth * Percent = Smoothing * VScale

\* C25: a mesh with at least one discrete shape index gets no write from
\* the mouth-open rule, whether or not it has a mouth-open index.
C25_PathsExclusive ==
    \A i \in DOMAIN Meshes :
        Len(Meshes[i].shapeIndices) > 0 =>
            \A w \in sel.writes : w.mesh = i => w.rule = "shape"

\* A talking frame of a mesh that has both discrete shapes and a mouth-open
\* index outside them.
C25_Witness ==
    /\ Talking(sel.mouthSmooth)
    /\ \E i \in DOMAIN Meshes :
           /\ Len(Meshes[i].shapeIndices) > 0
           /\ Meshes[i].mouthIndex # NoIndex
           /\ \A k \in DOMAIN Meshes[i].shapeIndices :
                  Meshes[i].shapeIndices[k] # Meshes[i].mouthIndex
           /\ ShapeTargets(i) # {}

\* ------------------------------------------------------ the body animation
Clips == sel.availableNames
HasIdle == \E i \in DOMAIN Clips : Clips[i] = "Idle"

\* C24 as stated: no frame sets the pool cursor lower than it was.
C24_CursorNeverDecreases ==
    [][sel'.animIndexRef >= sel.animIndexRef]_vars

\* C24: the pool cursor stays within 0 .. pool size; while a clip of the
\* pool plays after a switch it is that clip's position in the pool,
\* counted from 1.
C24_CursorWithinPool ==
    /\ 0 <= sel.animIndexRef
    /\ sel.animIndexRef <= Len(Pool(Clips))
    /\ sel.animIndexRef > 0 /\ ~IdleLike(sel.currentAction)
           => Pool(Clips)[sel.animIndexRef] = sel.currentAction

\* The last clip of a pool of two or more plays: the next switch wraps.
C24_Witness ==
    /\ Len(Pool(Clips)) >= 2
    /\ sel.animIndexRef = Len(Pool(Clips))
    /\ sel.currentAction = Pool(Clips)[Len(Pool(Clips))]

\* C35: a talking frame that finds an idle clip playing, or the switch
\* timer at its interval, resets the switch timer; with two or more clips
\* in the pool it goes to a clip of the pool other than the one that
\* played, and with an empty pool it keeps the clip.
C35_SwitchChoosesAnother ==
    [][\A m \in Mouths(sel.mouthSmooth), delta \in LongDeltas :
          /\ RenderFrame(m, 0, delta)
          /\ Talking(sel'.mouthSmooth)
          /\ \/ IdleLike(sel.currentAction)
             \/ (sel.switchTimer + delta) * VScale >= AnimInterval(sel'.mouthSmooth)
          => /\ sel'.switchTimer = 0
             /\ Len(Pool(Clips)) >= 2 =>
                    /\ sel'.currentAction # sel.currentAction
                    /\ \E k \in DOMAIN Pool(Clips) :
                           Pool(Clips)[k] = sel'.currentAction
             /\ Len(Pool(Clips)) = 0 =>
                    sel'.currentAction = sel.currentAction]_vars

\* A model without idle clip that started on the first clip of its pool
\* has switched to the second.
C35_Witness ==
    /\ Clips = <<"Talking", "Thinking">>
    /\ sel.currentAction = "Thinking"
    /\ sel.animIndexRef = 2
    /\ sel.switchTimer = 0
    /\ Talking(sel.mouthSmooth)

\* C27: after a frame that is not talking, a model with a clip named Idle
\* plays Idle and its switch timer is 0.
C27_SilenceReturnsToIdle ==
    sel.branch \in {"silent", "stopped"} /\ HasIdle =>
        sel.currentAction = "Idle" /\ sel.switchTimer = 0

\* The frame that stopped the talking, in a model whose talking frames had
\* switched to a clip of the pool.
C27_Witness ==
    /\ sel.branch = "stopped"
    /\ HasIdle
    /\ sel.animIndexRef > 0
    /\ sel.currentAction = "Idle"
    /\ sel.switchTimer = 0

\* --------------------------------------------------- the cadence timer
\* The selector again, with frame times from 0 to longer than the slowest
\* interval.  probe keeps what a frame was given and found: the timer
\* before it, the path its inputs put it on, and where the talking stands
\* that began from rest with the viseme prop at 0: "waiting" for the time
\* since it began to reach the interval, "reached" in the frame where it
\* does, "over" after that or once a viseme prop has come.
WideDeltas == {0, 50, 100, 300}

CadenceStart == [f |-> "cadence", before |-> 0, path |-> "rest",
                 onset |-> "rest", elapsed |-> 0]

CadenceInit ==
    /\ EngineInit
    /\ srv = NoRequest
    /\ box = NoBox
    /\ \E palette \in Palettes : sel = SelStart(palette)
    /\ probe = CadenceStart

\* What the frame is given and finds: v is the smoothed value of the frame.
Observe(v, c, delta) ==
    LET cadence == ~(c > 0 /\ Len(sel.allShapeIndices) > 0)
        e == probe.elapsed + delta
    IN  [f |-> "cadence",
         before |-> sel.visemeTimer,
         path |-> IF ~Talking(v) THEN "rest"
                  ELSE IF cadence THEN "cadence" ELSE "spectral",
         onset |-> IF ~Talking(v) THEN "rest"
                   ELSE IF probe.onset \in {"rest", "waiting"} /\ c = 0
                   THEN IF e * VScale >= Interval(v) THEN "reached" ELSE "waiting"
                   ELSE "over",
         elapsed |-> IF Talking(v) /\ probe.onset \in {"rest", "waiting"} /\ c = 0
                     THEN e ELSE 0]

\* The renderer calls the useFrame callback.
TimedFrame(m, c, delta) ==
    /\ sel' = UseFrame(sel, m, c, delta)
    /\ probe' = Observe(SmoothMouth(sel.mouthSmooth, m), c, delta)
    /\ UNCHANGED <<engineVars, srv, box>>

CadenceNext ==
    \E m \in Mouths(sel.mouthSmooth), c \in Visemes, delta \in WideDeltas :
        TimedFrame(m, c, delta)

CadenceSpec == CadenceInit /\ [][CadenceNext]_vars

\* C33: after every frame the cadence timer is at least 0 and below 0.24 s:
\* 0 after a frame that is not talking, below the interval of the frame
\* after a cadence frame, and what it was after a spectral frame.
C33_CadenceTimerInRange ==
    probe.f = "cadence" =>
        /\ 0 <= sel.visemeTimer
        /\ sel.visemeTimer < IntervalSlow
        /\ probe.path = "rest" /\ sel.branch # "start" => sel.visemeTimer = 0
        /\ probe.path = "cadence" =>
               sel.visemeTimer * VScale < Interval(sel.mouthSmooth)
        /\ probe.path = "spectral" => sel.visemeTimer = probe.before

\* A spectral frame has left standing a timer that cadence frames built up
\* to more than the fast interval.
C33_Witness ==
    /\ probe.f = "cadence"
    /\ probe.path = "spectral"
    /\ sel.visemeTimer = probe.before
    /\ sel.visemeTimer > IntervalFast

\* C34: talking that began from rest with the viseme prop at 0 has no
\* selection while the time since it began is below the interval of the
\* frame, and in the frame where that time reaches the interval a model
\* with a palette gets its first selection.
C34_FirstSelectionAtInterval ==
    probe.f = "cadence" =>
        /\ probe.onset = "waiting" =>
               /\ sel.currentViseme = NoViseme
               /\ sel.visemeTimer = probe.elapsed
               /\ probe.elapsed * VScale < Interval(sel.mouthSmooth)
        /\ probe.onset = "reached" /\ Len(sel.allShapeIndices) > 0 =>
               /\ sel.currentViseme # NoViseme
               /\ probe.elapsed * VScale >= Interval(sel.mouthSmooth)

\* The first selection after three frames of waiting or more: the time
\* since the talking began is beyond two frame times.
C34_Witness ==
    /\ probe.f = "cadence"
    /\ probe.onset = "reached"
    /\ probe.before >= 100
    /\ probe.elapsed > probe.before
    /\ sel.currentViseme # NoViseme

\* ------------------------------------------------------- the mouth closes
\* The frames after the mouth prop has gone to 0 and stays there.  v is no
\* longer on VGrid, so SmoothMouth rounds it down to four decimals;
\* probe.hi carries the same value rounded up, and the v of the program
\* lies between the two.
MaxTicks == 12
DecayStarts == {0, 150, 200, 201, 1000, 2500, 5000, 7500, 9999, VScale}

\* lerp(v, 0, 0.35), rounded up.
SmoothMouthUp(v) == ((Percent - Smoothing) * v + Percent - 1) \div Percent

\* A canvas of the palette [5, 0] in the middle of talking at v, with or
\* without a selection, or at rest when v is at or below the threshold.
DecayStart(v, cur) ==
    ApplyInfluences(
        [SelStart(<<5, 0>>) EXCEPT
            !.mouthSmooth = v,
            !.currentViseme = IF Talking(v) THEN cur ELSE NoViseme,
            !.branch = IF Talking(v) THEN "held" ELSE "silent"], v)

DecayInit ==
    /\ EngineInit
    /\ srv = NoRequest
    /\ box = NoBox
    /\ \E v \in DecayStarts, cur \in {NoViseme, 5} :
           /\ sel = DecayStart(v, cur)
           /\ probe = [f |-> "decay", start |-> v, ticks |-> 0, hi |-> v]

\* The renderer calls the useFrame callback with mouth = 0.
SilentFrame(c, delta) ==
    /\ probe.ticks < MaxTicks
    /\ sel' = UseFrame(sel, 0, c, delta)
    /\ probe' = [probe EXCEPT !.ticks = @ + 1, !.hi = SmoothMouthUp(@)]
    /\ UNCHANGED <<engineVars, srv, box>>

DecayNext == \E c \in Visemes, delta \in Deltas : SilentFrame(c, delta)

DecaySpec == DecayInit /\ [][DecayNext]_vars

\* C32: with the mouth prop at 0, v is at or below 0.02 and the selection
\* is none from the tenth frame on, whatever v in [0, 1] the frames began
\* at; the rounding never leaves it open on which side of 0.02 v is.
C32_ClosedWithinTenTicks ==
    probe.f = "decay" =>
        /\ sel.mouthSmooth <= probe.hi
        /\ Talking(sel.mouthSmooth) <=> Talking(probe.hi)
        /\ probe.ticks >= 10 =>
               /\ probe.hi <= TalkThreshold
               /\ ~Talking(sel.mouthSmooth)
               /\ sel.currentViseme = NoViseme
        /\ probe.ticks > 0 /\ ~Talking(sel.mouthSmooth) =>
               sel.currentViseme = NoViseme

\* From v = 1 the tenth frame is the one that closes the mouth.
C32_Witness ==
    /\ probe.f = "decay"
    /\ probe.start = VScale
    /\ probe.ticks = 10
    /\ sel.branch = "stopped"
    /\ sel.currentViseme = NoViseme

\* ------------------------------------------------------------ the server
\* The two POST handlers of server/index.js.  A request is the body, the
\* environment and what each upstream call will answer; the handler runs
\* to its end in one step and leaves the upstream calls it made (fetches)
\* and the responses it sent.
DefaultLines == 5
BriefLines == 10
TextLines == {0, 7, 12}

Flash == [family |-> "gemini-2.5-flash", suffix |-> ""]
Models ==
    [family : {"gemini-2.5-flash", "gemini-pro"}, suffix : {"", "-lite", "-latest"}]

\* m.replace(/-lite$/i, '')
NormalizeModel(m) == IF m.suffix = "-lite" THEN [m EXCEPT !.suffix = ""] ELSE m

\* What the first call to Gemini can do, and the status of its response.
FirstOutcomes == {"throws", "ok", "404", "notfound400", "429", "500"}
StatusOf(outcome) ==
    CASE outcome = "404" -> 404
      [] outcome = "notfound400" -> 400
      [] outcome = "429" -> 429
      [] outcome = "500" -> 500
      [] OTHER -> 200
NotFound(outcome) == outcome \in {"404", "notfound400"}
RetryOutcomes == {"ok", "fail", "throws"}

Response(status, kind, error) ==
    [status |-> status, kind |-> kind, error |-> error, from |-> "none", lines |-> 0]

\* res.json({ text: textOut }): the first maxLines lines of the reply of
\* the call `from`.
TextResponse(from, lines, brief) ==
    [status |-> 200, kind |-> "text", error |-> "none", from |-> from,
     lines |-> Min(lines, IF brief THEN BriefLines ELSE DefaultLines)]

Candidates(requestedModel) ==
    (IF requestedModel.suffix # "-latest"
     THEN <<NormalizeModel(requestedModel)>> ELSE <<>>) \o <<Flash, Flash>>

\* for (const cand of candidates): the calls made, and whether one was ok.
RECURSIVE RetryLoop(_, _, _, _)
RetryLoop(cands, tried, retry, log) ==
    IF cands = <<>> THEN [log |-> log, ok |-> FALSE]
    ELSE IF Head(cands) \in tried THEN RetryLoop(Tail(cands), tried, retry, log)
    ELSE IF retry = "ok" THEN [log |-> Append(log, Head(cands)), ok |-> TRUE]
    ELSE RetryLoop(Tail(cands), tried \cup {Head(cands)}, retry,
                   Append(log, Head(cands)))

ChatRequests ==
    [endpoint : {"chat"}, key : BOOLEAN,
     messages : {"missing", "empty", "malformed", "ok"}, brief : BOOLEAN,
     fake : BOOLEAN, requestedModel : Models, first : FirstOutcomes,
     firstLines : TextLines, retry : RetryOutcomes, retryLines : {7},
     fetches : {<<>>}, retried : {FALSE}, sent : {<<>>}, handled : {FALSE}]

\* app.post('/api/chat', ..)
Chat(rq) ==
    LET model == NormalizeModel(rq.requestedModel)
        loop == IF NotFound(rq.first)
                THEN RetryLoop(Candidates(rq.requestedModel), {model}, rq.retry, <<>>)
                ELSE [log |-> <<>>, ok |-> FALSE]
        Done(fetches, resp) ==
            [rq EXCEPT !.fetches = fetches, !.sent = Append(@, resp)]
    IN  IF ~rq.key THEN Done(<<>>, Response(500, "error", "missing_api_key"))
        ELSE IF rq.messages \in {"missing", "empty"}
        THEN Done(<<>>, Response(400, "error", "missing_messages"))
        ELSE IF rq.messages = "malformed"
        THEN Done(<<>>, Response(500, "error", "exception"))
        ELSE IF rq.first = "throws"
        THEN Done(<<model>>,
                  IF rq.fake THEN Response(200, "placeholder", "none")
                  ELSE Response(502, "error", "gemini_network_error"))
        ELSE IF rq.first = "ok"
        THEN Done(<<model>>, TextResponse("first", rq.firstLines, rq.brief))
        ELSE [Done(<<model>> \o loop.log,
                   IF rq.fake \/ StatusOf(rq.first) = 429
                   THEN Response(200, "placeholder", "none")
                   ELSE Response(StatusOf(rq.first), "error", "gemini_error"))
                 EXCEPT !.retried = loop.ok]

TtsRequests ==
    [endpoint : {"tts"}, provider : {"google", "akshat", "other"},
     key : BOOLEAN, akshat : {"throws", "audio", "json_audio", "no_audio"},
     google : {"throws", "audio", "ok_empty", "not_ok"},
     free : {"ok", "throws"}, fetches : {<<>>}, sent : {<<>>}, handled : {FALSE}]

Audio(from) ==
    [status |-> 200, kind |-> "audio", error |-> "none", from |-> from, lines |-> 0]

\* if (provider === 'google') { .. }
GoogleTts(rq) ==
    IF ~rq.key
    THEN [rq EXCEPT !.fetches = <<"free">>,
                    !.sent = <<IF rq.free = "ok" THEN Audio("free")
                               ELSE Response(500, "error", "free_google_tts_failed")>>]
    ELSE [rq EXCEPT !.fetches = <<"google">>,
                    !.sent = <<CASE rq.google = "audio" -> Audio("google")
                                 [] rq.google = "throws" ->
                                        Response(500, "error", "tts_failed")
                                 [] OTHER ->
                                        Response(500, "error", "google_tts_failed")>>]

\* A faulty akshat branch that sends the audio of akshat and goes on to the
\* closing 500 instead of returning.
AkshatTtsNoReturn(rq) ==
    IF rq.akshat \in {"audio", "json_audio"}
    THEN [rq EXCEPT !.fetches = <<"akshat">>,
                    !.sent = <<Audio("akshat"), Response(500, "error", "tts_failed")>>]
    ELSE IF rq.key
    THEN [rq EXCEPT !.fetches = <<"akshat", "google">>,
                    !.sent = <<IF rq.google = "audio" THEN Audio("google")
                               ELSE Response(500, "error", "tts_failed")>>]
    ELSE [rq EXCEPT !.fetches = <<"akshat">>,
                    !.sent = <<Response(500, "error", "tts_failed")>>]

\* A faulty akshat branch that gives up when akshat has no audio.
AkshatTtsNoFallback(rq) ==
    [rq EXCEPT !.fetches = <<"akshat">>,
               !.sent = <<IF rq.akshat \in {"audio", "json_audio"}
                          THEN Audio("akshat")
                          ELSE Response(500, "error", "tts_failed")>>]

\* if (provider === 'akshat') { .. }, down to the closing 500.
AkshatTts(rq) ==
    IF rq.akshat \in {"audio", "json_audio"}
    THEN [rq EXCEPT !.fetches = <<"akshat">>, !.sent = <<Audio("akshat")>>]
    ELSE IF rq.key
    THEN [rq EXCEPT !.fetches = <<"akshat", "google">>,
                    !.sent = <<IF rq.google = "audio" THEN Audio("google")
                               ELSE Response(500, "error", "tts_failed")>>]
    ELSE [rq EXCEPT !.fetches = <<"akshat">>,
                    !.sent = <<Response(500, "error", "tts_failed")>>]

\* app.post('/api/tts', ..)
Tts(rq) ==
    IF rq.provider = "google" THEN GoogleTts(rq)
    ELSE IF rq.provider = "akshat" THEN AkshatTts(rq)
    ELSE [rq EXCEPT !.sent = <<Response(500, "error", "tts_failed")>>]

ServerInit ==
    /\ EngineInit
    /\ sel = SelStart(<<>>)
    /\ probe = NoProbe
    /\ srv \in ChatRequests \cup TtsRequests
    /\ box = NoBox

HandleChat ==
    /\ srv.endpoint = "chat"
    /\ ~srv.handled
    /\ srv' = [Chat(srv) EXCEPT !.handled = TRUE]
    /\ UNCHANGED <<engineVars, sel, probe, box>>

HandleTts ==
    /\ srv.endpoint = "tts"
    /\ ~srv.handled
    /\ srv' = [Tts(srv) EXCEPT !.handled = TRUE]
    /\ UNCHANGED <<engineVars, sel, probe, box>>

ServerNext == HandleChat \/ HandleTts

ServerSpec == ServerInit /\ [][ServerNext]_vars

Answered == srv.endpoint # "none" /\ srv.sent # <<>>

\* C28 as stated: when the first call answers NOT_FOUND and the retry
\* against a candidate not yet tried succeeds, the endpoint answers with
\* the text of the retry; and no model is called twice in one request.
C28_RetryTextIsReturned ==
    Answered /\ srv.endpoint = "chat" =>
        /\ \A i, j \in DOMAIN srv.fetches : srv.fetches[i] = srv.fetches[j] => i = j
        /\ NotFound(srv.first) /\ srv.retried =>
               srv.sent = <<TextResponse("retry", srv.retryLines, srv.brief)>>

\* C29: with the provider akshat, an akshat call that throws or brings no
\* audio is followed by one call to Google TTS exactly when a key is
\* configured; the response is Google's audio when it came, and otherwise
\* (no key, no audio, a failed call) the one response is 500 tts_failed.
C29_AkshatFallsBackToGoogle ==
    Answered /\ srv.endpoint = "tts" /\ srv.provider = "akshat"
             /\ srv.akshat \in {"throws", "no_audio"} =>
        /\ srv.fetches = (IF srv.key THEN <<"akshat", "google">> ELSE <<"akshat">>)
        /\ Len(srv.sent) = 1
        /\ IF srv.key /\ srv.google = "audio"
           THEN srv.sent[1].kind = "audio" /\ srv.sent[1].from = "google"
           ELSE srv.sent[1].status = 500 /\ srv.sent[1].error = "tts_failed"

\* akshat threw, a key is configured, Google came back without audio.
C29_Witness ==
    /\ Answered
    /\ srv.endpoint = "tts" /\ srv.provider = "akshat"
    /\ srv.akshat = "throws" /\ srv.key /\ srv.google = "ok_empty"
    /\ srv.fetches = <<"akshat", "google">>
    /\ srv.sent = <<Response(500, "error", "tts_failed")>>

\* C36: a handler that has run to its end has sent one response, no more
\* and no fewer, on /api/chat and on /api/tts, whatever the request, the
\* environment and the upstream calls were.
C36_OneResponse ==
    srv.endpoint # "none" =>
        /\ srv.handled => Len(srv.sent) = 1
        /\ ~srv.handled => srv.sent = <<>>

\* The chat handler went through the retry and ended in the placeholder
\* reply.
C36_Witness ==
    /\ srv.endpoint = "chat"
    /\ srv.handled
    /\ Len(srv.fetches) = 2
    /\ srv.fake
    /\ srv.sent = <<Response(200, "placeholder", "none")>>

\* ----------------------------------------------------------- the ChatBox
\* The send function of ChatBox in its three versions: 1 shows the error of
\* a failed chat request and stops, 2 and 3 go on to the assistant message
\* and a second TTS request.  A send is a run that moves from await to
\* await; the user can type and press send at any time in between.
MaxSends == 3
Versions == {1, 2, 3}
ChatOutcomes == {"neterr", "notfound", "status", "error", "text"}
TtsOutcomes == {"neterr", "notok", "audio", "noaudio"}
PlayOutcomes == {"ok", "rejected"}

BoxStart(version, hasAudio) ==
    [version |-> version, hasAudio |-> hasAudio, input |-> "", loading |-> FALSE,
     err |-> "none", abortRef |-> 0, runs |-> <<>>, lastSend |-> "none"]

\* if (!input.trim() || loading) return.  A faulty variant forgets loading.
MaySendWhileLoading(b) == b.input # ""

MaySend(b) == b.input # "" /\ ~b.loading

\* finally { setLoading(false); abortRef.current = null }.  A faulty variant
\* leaves loading on.
FinishKeepsLoading(b, i, err) ==
    [b EXCEPT !.abortRef = 0, !.err = err, !.runs[i].pc = "done"]

Finish(b, i, err) ==
    [b EXCEPT !.loading = FALSE, !.abortRef = 0, !.err = err,
              !.runs[i].pc = "done"]

Await(b, i, pc, err) == [b EXCEPT !.runs[i].pc = pc, !.err = err]

\* send(), up to its first await.
Send(b) ==
    IF MaySend(b)
    THEN [b EXCEPT !.input = "", !.loading = TRUE, !.err = "none",
                   !.abortRef = Len(b.runs) + 1,
                   !.runs = Append(@, [pc |-> "chat", chat |-> "none"]),
                   !.lastSend = "started"]
    ELSE [b EXCEPT !.lastSend = "refused"]

\* The chat request of run i settles with outcome o.
AfterChat(b, i, o) ==
    LET b1 == [b EXCEPT !.runs[i].chat = o]
    IN  IF o = "text" THEN Await(b1, i, "tts", b.err)
        ELSE IF b.version = 1 THEN Finish(b1, i, "message")
        ELSE Await(b1, i, "tts2",
                   IF b.version = 3 /\ o \in {"neterr", "error"}
                   THEN "unavailable" ELSE b.err)

\* The TTS request that follows the chat reply settles.
AfterTts(b, i, o) ==
    IF o = "audio"
    THEN IF b.hasAudio THEN Await(b, i, "play", b.err) ELSE Finish(b, i, b.err)
    ELSE IF b.version = 1 THEN Finish(b, i, b.err)
    ELSE Await(b, i, "tts2", b.err)

\* The second TTS request of versions 2 and 3 settles.
AfterTts2(b, i, o) ==
    IF o = "audio" /\ b.hasAudio THEN Await(b, i, "play2", b.err)
    ELSE Finish(b, i, b.err)

\* audio.play() settles: a rejection is swallowed in version 1 and after
\* the second TTS request, and reaches the outer catch otherwise.
AfterPlay(b, i, o) ==
    IF o = "rejected" /\ b.runs[i].pc = "play" /\ b.version # 1
    THEN Finish(b, i, "message")
    ELSE Finish(b, i, b.err)

ChatBoxInit ==
    /\ EngineInit
    /\ sel = SelStart(<<>>)
    /\ probe = NoProbe
    /\ srv = NoRequest
    /\ \E version \in Versions, hasAudio \in BOOLEAN :
           box = BoxStart(version, hasAudio)

boxOnly == <<engineVars, sel, probe, srv>>

\* The user types into the input.
Type ==
    /\ box.input = ""
    /\ box' = [box EXCEPT !.input = "text"]
    /\ UNCHANGED boxOnly

\* The user clicks Send or presses Enter.
PressSend ==
    /\ Len(box.runs) < MaxSends
    /\ box' = Send(box)
    /\ UNCHANGED boxOnly

ChatSettles(i, o) ==
    /\ box.runs[i].pc = "chat"
    /\ box' = AfterChat(box, i, o)
    /\ UNCHANGED boxOnly

TtsSettles(i, o) ==
    /\ box.runs[i].pc \in {"tts", "tts2"}
    /\ box' = IF box.runs[i].pc = "tts" THEN AfterTts(box, i, o)
              ELSE AfterTts2(box, i, o)
    /\ UNCHANGED boxOnly

PlaySettles(i, o) ==
    /\ box.runs[i].pc \in {"play", "play2"}
    /\ box' = AfterPlay(box, i, o)
    /\ UNCHANGED boxOnly

ChatBoxNext ==
    \/ Type
    \/ PressSend
    \/ \E i \in DOMAIN box.runs, o \in ChatOutcomes : ChatSettles(i, o)
    \/ \E i \in DOMAIN box.runs, o \in TtsOutcomes : TtsSettles(i, o)
    \/ \E i \in DOMAIN box.runs, o \in PlayOutcomes : PlaySettles(i, o)

ChatBoxSpec == ChatBoxInit /\ [][ChatBoxNext]_vars

Active == {i \in DOMAIN box.runs : box.runs[i].pc # "done"}
InFlight == {i \in DOMAIN box.runs : box.runs[i].pc = "chat"}

\* C37: a ChatBox has at most one chat request in flight and at most one
\* send under way; loading is true exactly while a send is under way and
\* the abort handle is that send's; once every send has ended, however its
\* requests went, loading is false and the handle is cleared.
C37_OneSendAtATime ==
    box.version # 0 =>
        /\ Cardinality(InFlight) <= 1
        /\ Cardinality(Active) <= 1
        /\ box.loading <=> Active # {}
        /\ \A i \in Active : box.abortRef = i
        /\ Active = {} => box.abortRef = 0

\* A send failed on the network and ended; the next is in flight, and a
\* press of Send during it was refused.
C37_Witness ==
    /\ box.version # 0
    /\ Len(box.runs) = 2
    /\ box.runs[1].pc = "done"
    /\ box.runs[1].chat = "neterr"
    /\ box.runs[2].pc = "chat"
    /\ box.input = "text"
    /\ box.lastSend = "refused"
    /\ box.loading
    /\ box.abortRef = 2

====
